---- MODULE Spec2Model ----
(***************************************************************************)
(* Registration store, winner ranking, display ordering and export of the  *)
(* Snow Drift registration kiosk (src/try_2/src/main.rs).                  *)
(*                                                                         *)
(* The SQLite table `users` is the set of rows `users`; every handler of   *)
(* MyApp::update that touches the database is one action.  A second,       *)
(* fine-grained specification (SpecConc) splits each handler into its      *)
(* lock acquisition, its SQL statements and its lock release, to examine   *)
(* the Mutex<Database> discipline.                                         *)
(***************************************************************************)
EXTENDS Integers, Sequences, FiniteSets, TLC

\* ---------------------------------------------------------------- bounds
\* Registrations accepted before the model stops inserting (Spec).
MaxUsers == 6
\* Registrations accepted in the fine-grained specification (SpecConc).
MaxConcUsers == 3

\* ------------------------------------------------------ program constants
\* users_with_distance.len().min(5)
WinnerLimit == 5
\* i32::MAX, the width of User.number, User.id and max_number
I32Max == 2147483647
I32Min == -I32Max - 1
\* self.dev_window.max_number.parse::<i32>().unwrap_or(300)
DefaultMaxNumber == 300

\* ------------------------------------------------------------------ text
\* A String that is parsed is a sequence of one-character strings.
DigitChars == <<"0", "1", "2", "3", "4", "5", "6", "7", "8", "9">>

IsDigit(c) == \E d \in 1..10 : DigitChars[d] = c

DigitOf(c) == (CHOOSE d \in 1..10 : DigitChars[d] = c) - 1

\* core::num from_str_radix for i32, radix 10: the digits are accumulated
\* with checked_mul / checked_add (or checked_sub after a leading '-'), so a
\* value outside i32 is an error like any other.
RECURSIVE ParseDigits(_, _, _, _)
ParseDigits(s, i, acc, neg) ==
    IF i > Len(s) THEN [ok |-> TRUE, val |-> acc]
    ELSE IF ~IsDigit(s[i]) THEN [ok |-> FALSE, val |-> 0]
    ELSE LET d == DigitOf(s[i]) IN
         IF neg
         THEN IF acc < -(I32Max \div 10) THEN [ok |-> FALSE, val |-> 0]
              ELSE IF d - 1 > acc * 10 + I32Max THEN [ok |-> FALSE, val |-> 0]
              ELSE ParseDigits(s, i + 1, acc * 10 - d, neg)
         ELSE IF acc > I32Max \div 10 THEN [ok |-> FALSE, val |-> 0]
              ELSE IF d > I32Max - acc * 10 THEN [ok |-> FALSE, val |-> 0]
              ELSE ParseDigits(s, i + 1, acc * 10 + d, neg)

\* str::parse::<i32>()
ParseI32(s) ==
    IF Len(s) = 0 THEN [ok |-> FALSE, val |-> 0]
    ELSE IF s[1] \in {"+", "-"}
         THEN IF Len(s) = 1 THEN [ok |-> FALSE, val |-> 0]
              ELSE ParseDigits(s, 2, 0, s[1] = "-")
         ELSE ParseDigits(s, 1, 0, FALSE)

\* i32::to_string(): the decimal digits of a non-negative value, most
\* significant first, after a '-' for a negative one.
RECURSIVE NatDigits(_)
NatDigits(n) ==
    IF n < 10 THEN <<DigitChars[n + 1]>>
    ELSE Append(NatDigits(n \div 10), DigitChars[(n % 10) + 1])

I32ToString(n) ==
    IF n >= 0 THEN NatDigits(n)
    ELSE IF n = I32Min THEN <<"-">> \o NatDigits(I32Max \div 10) \o <<"8">>
    ELSE <<"-">> \o NatDigits(-n)

\* SQLite INTEGER column affinity: a bound TEXT value that is a well-formed
\* integer literal is stored as that integer (number.to_string() is bound as
\* text into `number INTEGER NOT NULL`).
RECURSIVE DecimalValue(_, _, _)
DecimalValue(s, i, acc) ==
    IF i > Len(s) THEN acc ELSE DecimalValue(s, i + 1, acc * 10 + DigitOf(s[i]))

IntegerAffinity(s) ==
    IF s[1] = "-"
    THEN IF s = I32ToString(I32Min) THEN I32Min ELSE -DecimalValue(s, 2, 0)
    ELSE DecimalValue(s, 1, 0)

\* ------------------------------------------------------------ arithmetic
\* a - b on i32.  With overflow checks (a debug build) an overflow panics;
\* without them (a release build) the result wraps modulo 2^32.
SubI32(a, b, checks) ==
    IF b < 0 /\ a > I32Max + b
    THEN [panic |-> checks, val |-> (((a - I32Max) - 1) - b) - I32Max - 1]
    ELSE IF b > 0 /\ a < I32Min + b
    THEN [panic |-> checks, val |-> ((((a + I32Max) + 1) - b) + I32Max) + 1]
    ELSE [panic |-> FALSE, val |-> a - b]

\* i32::abs: i32::MIN has no absolute value; a debug build panics, a release
\* build returns i32::MIN.
AbsI32(x, checks) ==
    IF x = I32Min THEN [panic |-> checks, val |-> I32Min]
    ELSE [panic |-> FALSE, val |-> IF x < 0 THEN -x ELSE x]

\* (u.number - max_number).abs()
Distance(number, max_number, checks) ==
    LET d == SubI32(number, max_number, checks) IN
    IF d.panic THEN [panic |-> TRUE, val |-> 0] ELSE AbsI32(d.val, checks)

\* -------------------------------------------------------------- database
\* A row of `users`: id INTEGER PRIMARY KEY, first_name, surname, email TEXT,
\* number INTEGER, winner INTEGER (0 or 1).

MaxOf(S) == CHOOSE x \in S : \A y \in S : y <= x

MinOf(S) == CHOOSE x \in S : \A y \in S : x <= y

\* INTEGER PRIMARY KEY without AUTOINCREMENT: the rowid of a new row is one
\* more than the largest rowid in the table, 1 for an empty table.
NextRowid(rows) == IF rows = {} THEN 1 ELSE MaxOf({r.id : r \in rows}) + 1

\* insert_user with the winner column set.
insert_user_Winner(rows, firstname, surname, email, number) ==
    rows \cup {[id         |-> NextRowid(rows),
                first_name |-> firstname,
                surname    |-> surname,
                email      |-> email,
                number     |-> IntegerAffinity(I32ToString(number)),
                winner     |-> 1]}

\* insert_user followed by a reset of every winner flag.
insert_user_ResetsFlags(rows, firstname, surname, email, number) ==
    {[r EXCEPT !.winner = 0] : r \in rows}
        \cup {[id         |-> NextRowid(rows),
               first_name |-> firstname,
               surname    |-> surname,
               email      |-> email,
               number     |-> IntegerAffinity(I32ToString(number)),
               winner     |-> 0]}

\* INSERT INTO users (first_name, surname, email, number, winner)
\* VALUES (?1, ?2, ?3, ?4, 0), the number bound as number.to_string()
insert_user(rows, firstname, surname, email, number) ==
    rows \cup {[id         |-> NextRowid(rows),
                first_name |-> firstname,
                surname    |-> surname,
                email      |-> email,
                number     |-> IntegerAffinity(I32ToString(number)),
                winner     |-> 0]}

\* The User built from a row: winner: row.get::<_, i32>(5)? == 1
UserOfRow(r) ==
    [id         |-> r.id,
     first_name |-> r.first_name,
     surname    |-> r.surname,
     email      |-> r.email,
     number     |-> r.number,
     winner     |-> (r.winner = 1)]

\* The query with ORDER BY number in place of ORDER BY id.
RECURSIVE OrderByNumber(_)
OrderByNumber(rows) ==
    IF rows = {} THEN <<>>
    ELSE LET least == MinOf({q.number : q \in rows})
             first == CHOOSE r \in rows :
                          /\ r.number = least
                          /\ \A q \in rows : q.number = least => r.id <= q.id
         IN  <<first>> \o OrderByNumber(rows \ {first})

\* SELECT ... FROM users ORDER BY id
RECURSIVE OrderById(_)
OrderById(rows) ==
    IF rows = {} THEN <<>>
    ELSE LET first == CHOOSE r \in rows : r.id = MinOf({q.id : q \in rows})
         IN  <<first>> \o OrderById(rows \ {first})

SeqMap_UserOfRow(s) == [i \in 1..Len(s) |-> UserOfRow(s[i])]

get_all_users(rows) == SeqMap_UserOfRow(OrderById(rows))

\* UPDATE users SET winner = 0
ClearWinners(rows) == {[r EXCEPT !.winner = 0] : r \in rows}

\* UPDATE users SET winner = 1 WHERE id = ?1
MarkWinner(rows, user_id) ==
    {IF r.id = user_id THEN [r EXCEPT !.winner = 1] ELSE r : r \in rows}

RECURSIVE MarkWinners(_, _, _)
MarkWinners(rows, ids, i) ==
    IF i > Len(ids) THEN rows ELSE MarkWinners(MarkWinner(rows, ids[i]), ids, i + 1)

\* users.iter().map(|u| (u.id, (u.number - max_number).abs())).collect()
\* The pairs <<id, dist>>; panic when a distance overflows under checks.
UsersWithDistance(us, max_number, checks) ==
    LET dist(i) == Distance(us[i].number, max_number, checks) IN
    [panic |-> \E i \in 1..Len(us) : dist(i).panic,
     pairs |-> [i \in 1..Len(us) |-> <<us[i].id, dist(i).val>>]]

\* slice::sort_by_key(|&(_, dist)| dist): a stable sort, so equal keys keep
\* the order they had.  x, which stood behind all of `sorted`, is placed
\* behind every element whose key is <= its own.
RECURSIVE InsertByKey(_, _)
InsertByKey(sorted, x) ==
    IF sorted = <<>> THEN <<x>>
    ELSE IF x[2] < Head(sorted)[2] THEN <<x>> \o sorted
    ELSE <<Head(sorted)>> \o InsertByKey(Tail(sorted), x)

RECURSIVE SortByKeyFrom(_, _, _)
SortByKeyFrom(s, i, sorted) ==
    IF i > Len(s) THEN sorted ELSE SortByKeyFrom(s, i + 1, InsertByKey(sorted, s[i]))

SortByKey(s) == SortByKeyFrom(s, 1, <<>>)

MinNat(a, b) == IF a < b THEN a ELSE b

\* The ids the loop `for i in 0..winner_count` marks, in order.
WinnerIds(pairs) ==
    LET sorted == SortByKey(pairs)
        winner_count == MinNat(Len(sorted), WinnerLimit)
    IN  [i \in 1..winner_count |-> sorted[i][1]]

\* calculate_winners without its first statement.
calculate_winners_NoReset(rows, max_number, checks) ==
    LET us  == get_all_users(rows)
        uwd == UsersWithDistance(us, max_number, checks)
    IN  IF Len(us) = 0 THEN [panic |-> FALSE, rows |-> rows]
        ELSE IF uwd.panic THEN [panic |-> TRUE, rows |-> rows]
        ELSE [panic |-> FALSE, rows |-> MarkWinners(rows, WinnerIds(uwd.pairs), 1)]

\* calculate_winners with no reset and a marking statement that flips the flag.
calculate_winners_Flip(rows, max_number, checks) ==
    LET us  == get_all_users(rows)
        uwd == UsersWithDistance(us, max_number, checks)
        ids == WinnerIds(uwd.pairs)
    IN  IF Len(us) = 0 THEN [panic |-> FALSE, rows |-> rows]
        ELSE IF uwd.panic THEN [panic |-> TRUE, rows |-> rows]
        ELSE [panic |-> FALSE,
              rows |-> {IF \E i \in 1..Len(ids) : ids[i] = r.id
                        THEN [r EXCEPT !.winner = 1 - r.winner] ELSE r : r \in rows}]

\* Database::calculate_winners: the table afterwards, or the table as the
\* panic leaves it (every statement is committed on its own).
calculate_winners(rows, max_number, checks) ==
    LET cleared == ClearWinners(rows)
        us      == get_all_users(cleared)
        uwd     == UsersWithDistance(us, max_number, checks)
    IN  IF Len(us) = 0 THEN [panic |-> FALSE, rows |-> cleared]
        ELSE IF uwd.panic THEN [panic |-> TRUE, rows |-> cleared]
        ELSE [panic |-> FALSE, rows |-> MarkWinners(cleared, WinnerIds(uwd.pairs), 1)]

\* The closure given to users.sort_by in get_sorted_users; a and b are
\* <<user, distance>>, the distance (x.number - max_number).abs() of each
\* user being the same in every comparison it takes part in.
CompareUsers(a, b) ==
    IF b[1].winner /\ ~a[1].winner THEN "Greater"
    ELSE IF ~b[1].winner /\ a[1].winner THEN "Less"
    ELSE IF a[2] < b[2] THEN "Less"
    ELSE IF a[2] > b[2] THEN "Greater" ELSE "Equal"

RECURSIVE WithDistance(_, _, _, _, _)
WithDistance(us, i, max_number, checks, acc) ==
    IF i > Len(us) THEN acc
    ELSE WithDistance(us, i + 1, max_number, checks,
             Append(acc, <<us[i], Distance(us[i].number, max_number, checks).val>>))

\* slice::sort_by: stable; x, which stood behind all of `sorted`, is placed
\* before the first element it is Less than.
RECURSIVE InsertUserSorted(_, _)
InsertUserSorted(sorted, x) ==
    IF sorted = <<>> THEN <<x>>
    ELSE IF CompareUsers(x, Head(sorted)) = "Less" THEN <<x>> \o sorted
    ELSE <<Head(sorted)>> \o InsertUserSorted(Tail(sorted), x)

RECURSIVE SortUsersFrom(_, _, _)
SortUsersFrom(s, i, sorted) ==
    IF i > Len(s) THEN sorted ELSE SortUsersFrom(s, i + 1, InsertUserSorted(sorted, s[i]))

RECURSIVE Firsts(_, _, _)
Firsts(s, i, acc) == IF i > Len(s) THEN acc ELSE Firsts(s, i + 1, Append(acc, s[i][1]))

SortUsers(us, max_number, checks) ==
    Firsts(SortUsersFrom(WithDistance(us, 1, max_number, checks, <<>>), 1, <<>>), 1, <<>>)

\* A comparison sort compares every element with another of its own group
\* when the group has two or more members; the closure computes distances
\* only for two users with the same winner flag.
SortPanics(us, max_number, checks) ==
    /\ checks
    /\ \E i \in 1..Len(us) :
          /\ Distance(us[i].number, max_number, checks).panic
          /\ \E j \in 1..Len(us) : i # j /\ us[i].winner = us[j].winner

\* Database::get_sorted_users
get_sorted_users(rows, max_number, checks) ==
    LET us == get_all_users(rows) IN
    IF SortPanics(us, max_number, checks) THEN [panic |-> TRUE, users |-> <<>>]
    ELSE [panic |-> FALSE, users |-> SortUsers(us, max_number, checks)]

\* One row of the sheet: row![id, first_name, surname, email, number, YES/NO]
SheetRow(user) ==
    <<I32ToString(user.id), user.first_name, user.surname, user.email,
      I32ToString(user.number), IF user.winner THEN "YES" ELSE "NO">>

SheetHeader == <<"ID", "First Name", "Surname", "Email", "Number", "Winner">>

\* export_to_excel with the two Winner cell texts exchanged.
export_to_excel_Inverted(rows) ==
    LET us == get_all_users(rows) IN
    IF Len(us) = 0
    THEN [ok |-> FALSE, message |-> "No data to export!", count |-> 0, sheet |-> <<>>]
    ELSE [ok |-> TRUE, message |-> "Exported users", count |-> Len(us),
          sheet |-> <<SheetHeader>> \o
                    [i \in 1..Len(us) |->
                        [SheetRow(us[i]) EXCEPT ![6] = IF us[i].winner THEN "NO" ELSE "YES"]]]

\* MyApp::export_to_excel, the file name (a timestamp) left out: the message
\* and the rows written to the sheet "Registrations".
export_to_excel(rows) ==
    LET us == get_all_users(rows) IN
    IF Len(us) = 0
    THEN [ok |-> FALSE, message |-> "No data to export!", count |-> 0, sheet |-> <<>>]
    ELSE [ok |-> TRUE, message |-> "Exported users", count |-> Len(us),
          sheet |-> <<SheetHeader>> \o [i \in 1..Len(us) |-> SheetRow(us[i])]]

\* ----------------------------------------------------------------- state
VARIABLES
    users,            \* the rows of the table `users` of the in-memory database
    last,             \* the handler that ran last, what it read and what it showed
    crashed,          \* a panic has unwound out of MyApp::update
    lock,             \* Mutex<Database>: "free", "poisoned" or the actor holding it
    pc,               \* SpecConc: each actor's place in its handler
    frame             \* SpecConc: each actor's locals

vars == <<users, last, crashed, lock, pc, frame>>

\* The two callers of the shared handle in SpecConc.
Actors == {"ui", "background"}

NoFrame == [op |-> "none", names |-> <<>>, num |-> 0, ids |-> <<>>, i |-> 0,
            torn |-> FALSE]

\* ---------------------------------------------------------------- inputs
\* What is typed into the registration form when Submit is clicked:
\* <<first_name, surname, email, number>>.
Registrations ==
    { <<"", "Doe", "a@b.com", <<"5">>>>,
      <<"Jo", "", "a@b.com", <<"a", "b", "c">>>>,
      <<"Jo", "Doe", "", <<"0">>>>,
      <<"Jo", "Doe", "a@b.com", <<>>>>,
      <<"Jo", "Doe", "a@b.com", <<"a", "b", "c">>>>,
      <<"Jo", "Doe", "a@b.com", <<"2", "1", "4", "7", "4", "8", "3", "6", "4", "8">>>>,
      <<"Jo", "Doe", "a@b.com", <<"0">>>>,
      <<"Jo", "Doe", "a@b.com", <<"1", "0">>>>,
      <<"Al", "Roe", "c@d.org", <<"+", "5", "0">>>> }

\* What stands in the developer window's max_number field.
MaxNumberTexts ==
    { <<"5", "0">>,
      <<"3", "0">>,
      <<"a", "b", "c">>,
      <<"-", "2", "1", "4", "7", "4", "8", "3", "6", "4", "8">>,
      <<"-", "2", "1", "4", "7", "4", "8", "3", "6", "3", "8">> }

\* --------------------------------------------------------------- handlers
\* The Submit button's checks with the number parsed before the fields are
\* looked at.
SubmitDecision_ParseFirst(first_name, surname, email, number) ==
    LET parsed == ParseI32(number) IN
    IF ~parsed.ok
    THEN [insert |-> FALSE, num |-> 0, message |-> "Invalid number format!"]
    ELSE IF first_name = "" \/ surname = "" \/ email = ""
    THEN [insert |-> FALSE, num |-> 0, message |-> "Please fill all fields!"]
    ELSE IF parsed.val >= 1
    THEN [insert |-> TRUE, num |-> parsed.val, message |-> "Registration successful!"]
    ELSE [insert |-> FALSE, num |-> 0, message |-> "Number must be >= 1"]

\* The Submit button's checks, in the order of the if / else-if chain.
SubmitDecision(first_name, surname, email, number) ==
    IF first_name = "" \/ surname = "" \/ email = "" \/ Len(number) = 0
    THEN [insert |-> FALSE, num |-> 0, message |-> "Please fill all fields!"]
    ELSE LET parsed == ParseI32(number) IN
         IF parsed.ok
         THEN IF parsed.val >= 1
              THEN [insert |-> TRUE, num |-> parsed.val,
                    message |-> "Registration successful!"]
              ELSE [insert |-> FALSE, num |-> 0, message |-> "Number must be >= 1"]
         ELSE [insert |-> FALSE, num |-> 0, message |-> "Invalid number format!"]

Shown(op, names, text, message, count, out) ==
    [op |-> op, names |-> names, text |-> text, message |-> message,
     count |-> count, out |-> out]

Init ==
    /\ users = {}
    /\ last = Shown("none", <<>>, <<>>, "", 0, <<>>)
    /\ crashed = FALSE
    /\ lock = "free"
    /\ pc = [a \in Actors |-> "idle"]
    /\ frame = [a \in Actors |-> NoFrame]

\* if ui.button("Submit").clicked() { ... }
Submit(first_name, surname, email, number) ==
    \E d \in {SubmitDecision(first_name, surname, email, number)} :
    /\ ~crashed
    /\ d.insert => Cardinality(users) < MaxUsers
    /\ users' = IF d.insert
                THEN insert_user(users, first_name, surname, email, d.num)
                ELSE users
    /\ last' = Shown("submit", <<first_name, surname, email>>, number, d.message, 0, <<>>)
    /\ UNCHANGED <<crashed, lock, pc, frame>>

\* if ui.button("Calculate Winners (Top 5 closest)").clicked() { ... }
CalculateWinners(max_number, overflow_checks) ==
    \E parsed \in {ParseI32(max_number)} :
    /\ ~crashed
    /\ IF parsed.ok
       THEN \E r \in {calculate_winners(users, parsed.val, overflow_checks)} :
            /\ users' = r.rows
            /\ crashed' = r.panic
            /\ last' = Shown("calc", <<>>, max_number,
                             IF r.panic THEN "panic"
                             ELSE "Winners calculated successfully!", 0, <<>>)
       ELSE /\ last' = Shown("calc", <<>>, max_number, "Invalid max number!", 0, <<>>)
            /\ UNCHANGED <<users, crashed>>
    /\ UNCHANGED <<lock, pc, frame>>

\* if ui.button("Export All Data to Excel").clicked() { ... }
Export ==
    \E r \in {export_to_excel(users)} :
    /\ ~crashed
    /\ last' = Shown("export", <<>>, <<>>, r.message, r.count, r.sheet)
    /\ UNCHANGED <<users, crashed, lock, pc, frame>>

\* The target the table window ranks by.
TableTarget(max_number) ==
    LET parsed == ParseI32(max_number) IN
    IF parsed.ok THEN parsed.val ELSE DefaultMaxNumber

\* The table window computes each listed user's distance for its label.
LabelPanics(us, max_num, checks) ==
    checks /\ \E i \in 1..Len(us) : Distance(us[i].number, max_num, checks).panic

\* if self.table_window.open { ... }: one frame of the "Registrations Table"
TableWindow(max_number, overflow_checks) ==
    \E max_num \in {TableTarget(max_number)} :
    \E r \in {get_sorted_users(users, max_num, overflow_checks)} :
    \E panic \in {r.panic \/ LabelPanics(r.users, max_num, overflow_checks)} :
    /\ ~crashed
    /\ crashed' = panic
    /\ last' = IF panic THEN Shown("table", <<>>, max_number, "panic", 0, <<>>)
               ELSE IF Len(r.users) = 0
               THEN Shown("table", <<>>, max_number, "No registrations yet.", 0, <<>>)
               ELSE Shown("table", <<>>, max_number, "Total registrations",
                          Len(r.users), r.users)
    /\ UNCHANGED <<users, lock, pc, frame>>

Next ==
    \/ \E reg \in Registrations : Submit(reg[1], reg[2], reg[3], reg[4])
    \/ \E text \in MaxNumberTexts, checks \in BOOLEAN : CalculateWinners(text, checks)
    \/ Export
    \/ \E text \in MaxNumberTexts, checks \in BOOLEAN : TableWindow(text, checks)

Spec == Init /\ [][Next]_vars

\* ------------------------------------------------- the handlers, stepwise
\* SpecConc: the same handlers called by the actors of Actors on the shared
\* Arc<Mutex<Database>>, each SQL statement a step of its own.

Inside == {"insert", "clear", "rank", "mark", "read", "unlock"}

\* Another actor stands between the reset and the last mark of a ranking run.
RecomputeInProgress(a) == \E b \in Actors \ {a} : pc[b] \in {"rank", "mark"}

\* Inserts accepted and not yet executed count towards the bound.
Pending == Cardinality({a \in Actors : frame[a].op = "submit"})

\* Submit clicked: the checks precede the lock; a rejected submission ends here.
BeginSubmit(a, first_name, surname, email, number) ==
    \E d \in {SubmitDecision(first_name, surname, email, number)} :
    /\ pc[a] = "idle"
    /\ d.insert
    /\ Cardinality(users) + Pending < MaxConcUsers
    /\ pc' = [pc EXCEPT ![a] = "lock"]
    /\ frame' = [frame EXCEPT ![a] = [NoFrame EXCEPT !.op = "submit",
                     !.names = <<first_name, surname, email>>, !.num = d.num]]
    /\ UNCHANGED <<users, last, crashed, lock>>

\* Calculate Winners clicked: the target is parsed before the lock is taken.
BeginCalculateWinners(a, max_number) ==
    \E parsed \in {ParseI32(max_number)} :
    /\ pc[a] = "idle"
    /\ parsed.ok
    /\ pc' = [pc EXCEPT ![a] = "lock"]
    /\ frame' = [frame EXCEPT ![a] = [NoFrame EXCEPT !.op = "calc", !.num = parsed.val]]
    /\ UNCHANGED <<users, last, crashed, lock>>

\* export_to_excel called
BeginExport(a) ==
    /\ pc[a] = "idle"
    /\ pc' = [pc EXCEPT ![a] = "lock"]
    /\ frame' = [frame EXCEPT ![a] = [NoFrame EXCEPT !.op = "export"]]
    /\ UNCHANGED <<users, last, crashed, lock>>

\* A frame with the table window open.  The lock is taken before max_number
\* is parsed; the parse touches nothing shared.
BeginTableWindow(a, max_number) ==
    /\ pc[a] = "idle"
    /\ pc' = [pc EXCEPT ![a] = "lock"]
    /\ frame' = [frame EXCEPT ![a] = [NoFrame EXCEPT !.op = "table",
                     !.num = TableTarget(max_number)]]
    /\ UNCHANGED <<users, last, crashed, lock>>

\* The Acquire of an actor that does not wait for the lock to be free.
Acquire_NoWait(a) ==
    /\ pc[a] = "lock"
    /\ lock' = a
    /\ pc' = [pc EXCEPT ![a] =
                 CASE frame[a].op = "submit" -> "insert"
                   [] frame[a].op = "calc"   -> "clear"
                   [] OTHER                  -> "read"]
    /\ UNCHANGED <<users, last, crashed, frame>>

\* self.database.lock().unwrap(): waits while another actor holds the lock,
\* panics on a poisoned lock.
Acquire(a) ==
    /\ pc[a] = "lock"
    /\ lock \in {"free", "poisoned"}
    /\ IF lock = "poisoned"
       THEN /\ pc' = [pc EXCEPT ![a] = "panicked"]
            /\ UNCHANGED lock
       ELSE /\ lock' = a
            /\ pc' = [pc EXCEPT ![a] =
                         CASE frame[a].op = "submit" -> "insert"
                           [] frame[a].op = "calc"   -> "clear"
                           [] OTHER                  -> "read"]
    /\ UNCHANGED <<users, last, crashed, frame>>

\* db.insert_user(...)
StepInsert(a) ==
    /\ pc[a] = "insert"
    /\ users' = insert_user(users, frame[a].names[1], frame[a].names[2],
                            frame[a].names[3], frame[a].num)
    /\ pc' = [pc EXCEPT ![a] = "unlock"]
    /\ UNCHANGED <<last, crashed, lock, frame>>

\* calculate_winners: self.conn.execute("UPDATE users SET winner = 0", [])
StepClear(a) ==
    /\ pc[a] = "clear"
    /\ users' = ClearWinners(users)
    /\ pc' = [pc EXCEPT ![a] = "rank"]
    /\ UNCHANGED <<last, crashed, lock, frame>>

\* calculate_winners: get_all_users, the distances and the sort.  A panic
\* unwinds through the MutexGuard, which poisons the lock.
StepRank(a, overflow_checks) ==
    \E us \in {get_all_users(users)} :
    \E uwd \in {UsersWithDistance(us, frame[a].num, overflow_checks)} :
    /\ pc[a] = "rank"
    /\ IF Len(us) = 0
       THEN /\ pc' = [pc EXCEPT ![a] = "unlock"]
            /\ UNCHANGED <<lock, frame>>
       ELSE IF uwd.panic
       THEN /\ pc' = [pc EXCEPT ![a] = "panicked"]
            /\ lock' = "poisoned"
            /\ UNCHANGED frame
       ELSE /\ pc' = [pc EXCEPT ![a] = "mark"]
            /\ frame' = [frame EXCEPT ![a].ids = WinnerIds(uwd.pairs), ![a].i = 1]
            /\ UNCHANGED lock
    /\ UNCHANGED <<users, last, crashed>>

\* calculate_winners: one turn of `for i in 0..winner_count`
StepMark(a) ==
    /\ pc[a] = "mark"
    /\ users' = MarkWinner(users, frame[a].ids[frame[a].i])
    /\ IF frame[a].i = Len(frame[a].ids)
       THEN /\ pc' = [pc EXCEPT ![a] = "unlock"]
            /\ UNCHANGED frame
       ELSE /\ frame' = [frame EXCEPT ![a].i = frame[a].i + 1]
            /\ UNCHANGED pc
    /\ UNCHANGED <<last, crashed, lock>>

\* get_all_users in export_to_excel, get_sorted_users in the table window.
\* torn records whether the rows were read in the middle of a ranking run.
StepRead(a, overflow_checks) ==
    \E panic \in {/\ frame[a].op = "table"
                  /\ \E r \in {get_sorted_users(users, frame[a].num, overflow_checks)} :
                        r.panic \/ LabelPanics(r.users, frame[a].num, overflow_checks)} :
    /\ pc[a] = "read"
    /\ IF panic
       THEN /\ pc' = [pc EXCEPT ![a] = "panicked"]
            /\ lock' = "poisoned"
       ELSE /\ pc' = [pc EXCEPT ![a] = "unlock"]
            /\ UNCHANGED lock
    /\ frame' = [frame EXCEPT ![a].torn = RecomputeInProgress(a)]
    /\ UNCHANGED <<users, last, crashed>>

\* The MutexGuard `db` goes out of scope.
Release(a) ==
    /\ pc[a] = "unlock"
    /\ lock' = "free"
    /\ pc' = [pc EXCEPT ![a] = "idle"]
    /\ frame' = [frame EXCEPT ![a] = NoFrame]
    /\ UNCHANGED <<users, last, crashed>>

NextConc ==
    \E a \in Actors :
        \/ \E reg \in Registrations : BeginSubmit(a, reg[1], reg[2], reg[3], reg[4])
        \/ \E text \in MaxNumberTexts : BeginCalculateWinners(a, text)
        \/ BeginExport(a)
        \/ \E text \in MaxNumberTexts : BeginTableWindow(a, text)
        \/ Acquire(a)
        \/ StepInsert(a)
        \/ StepClear(a)
        \/ \E checks \in BOOLEAN : StepRank(a, checks)
        \/ StepMark(a)
        \/ \E checks \in BOOLEAN : StepRead(a, checks)
        \/ Release(a)

SpecConc == Init /\ [][NextConc]_vars

\* ------------------------------------------------------------ properties
\* What the properties speak about.

CalcDone ==
    last.op = "calc" /\ last.message = "Winners calculated successfully!"

\* The target of the ranking run that ran last.
CalcTarget == ParseI32(last.text).val

Winners == {r \in users : r.winner = 1}

NonWinners == {r \in users : r.winner # 1}

\* abs(n1 - t) <= abs(n2 - t) over the integers, for stored numbers (>= 1),
\* written so that no intermediate value leaves the 32-bit range.
CloserOrEqual(n1, n2, t) ==
    IF t <= n1 /\ t <= n2 THEN n1 <= n2
    ELSE IF t >= n1 /\ t >= n2 THEN n1 >= n2
    ELSE (IF n1 >= t THEN n1 - t ELSE t - n1) <= (IF n2 >= t THEN n2 - t ELSE t - n2)

\* a ranks before b: (abs(number - t) ascending, id ascending)
RanksBefore(a, b, t) ==
    \/ ~CloserOrEqual(b.number, a.number, t)
    \/ CloserOrEqual(a.number, b.number, t) /\ CloserOrEqual(b.number, a.number, t)
       /\ a.id < b.id

\* The entries among the first k of the store ranked by (distance, id).
FirstRanked(k, t) ==
    {r \in users : Cardinality({q \in users : RanksBefore(q, r, t)}) < k}

\* C1: right after a ranking run that completed, exactly min(5, entry count)
\* entries are flagged as winners and every other entry's flag is false.
C1_WinnerCount ==
    CalcDone =>
        /\ Cardinality(Winners) = MinNat(WinnerLimit, Cardinality(users))
        /\ \A r \in users : r.winner \in {0, 1}

C1_Witness ==
    /\ CalcDone
    /\ Cardinality(users) = WinnerLimit + 1
    /\ Cardinality(Winners) = WinnerLimit
    /\ \E r \in NonWinners : r.id # WinnerLimit + 1

\* C2: right after a ranking run that completed, no entry that is not a
\* winner is strictly closer to the target than a winner.
C2_NoCloserNonWinner ==
    CalcDone =>
        \A a \in Winners : \A c \in NonWinners :
            CloserOrEqual(a.number, c.number, CalcTarget)

\* C3: running the ranking again with the same target right after a run that
\* completed changes nothing in the store.
C3_Idempotent ==
    CalcDone =>
        \A checks \in BOOLEAN :
            LET again == calculate_winners(users, CalcTarget, checks)
            IN  ~again.panic => again.rows = users

C3_Witness ==
    /\ CalcDone
    /\ last.text = <<"3", "0">>
    /\ Cardinality(users) = WinnerLimit + 1
    /\ {r.id : r \in Winners} = 1..WinnerLimit
    /\ \E r \in Winners : r.number = 10
    /\ \E r \in Winners : r.number = 50

\* C10: right after a ranking run that completed, the winners are exactly
\* the first min(5, n) entries ranked by (abs(number - t), id).
C10_LowestIdWinsTies ==
    CalcDone => Winners = FirstRanked(WinnerLimit, CalcTarget)

\* The rule of the validation layer a message of the Submit handler reports.
RejectionOf(message) ==
    CASE message = "Please fill all fields!" -> "MissingField"
      [] message = "Invalid number format!"  -> "NotANumber"
      [] message = "Number must be >= 1"     -> "OutOfRange"
      [] OTHER                                -> "none"

\* The first rule a submission fails, the rules taken in the stated order:
\* (1) a field is empty, (2) the number text is no (32-bit) integer,
\* (3) the integer is below 1.
FirstFailingRule(first_name, surname, email, number) ==
    CASE "" \in {first_name, surname, email} \/ number = <<>> -> "MissingField"
      [] ~ParseI32(number).ok                                 -> "NotANumber"
      [] ParseI32(number).val < 1                             -> "OutOfRange"
      [] OTHER                                                -> "none"

SubmitAccepted == last.op = "submit" /\ last.message = "Registration successful!"

SubmitRejected == last.op = "submit" /\ last.message # "Registration successful!"

C4_Inv ==
    /\ last.op = "submit" =>
          RejectionOf(last.message) =
              FirstFailingRule(last.names[1], last.names[2], last.names[3], last.text)
    /\ \A r \in users :
          r.first_name # "" /\ r.surname # "" /\ r.email # "" /\ r.number >= 1

C4_Step == SubmitRejected' => users' = users

\* C4: a submission is rejected for the first rule it fails, the rules taken
\* in the order empty field, not a number, below 1; a rejected submission
\* leaves the store as it was, so every stored entry has non-empty names and
\* email and a number >= 1.
C4_ValidationOrder == []C4_Inv /\ [][C4_Step]_vars

C4_Witness ==
    /\ SubmitRejected
    /\ last.message = "Invalid number format!"
    /\ last.text # <<"a", "b", "c">>
    /\ Winners # {}

\* The position (from 1) of the entry with id `id` in the listing by id.
PlaceById(rows, id) == Cardinality({q \in rows : q.id < id}) + 1

\* How often an entry with the fields of row r and flag w stands in list l.
Occurrences(l, r, w) ==
    Cardinality({i \in 1..Len(l) : l[i] = [UserOfRow(r) EXCEPT !.winner = w]})

C5_Step ==
    SubmitAccepted' =>
        \E r \in users' \ users :
            /\ users' = users \cup {r}
            /\ Cardinality(users') = Cardinality(users) + 1
            /\ r.first_name = last'.names[1]
            /\ r.surname = last'.names[2]
            /\ r.email = last'.names[3]
            /\ r.number = ParseI32(last'.text).val
            /\ r.winner = 0
            /\ LET before == get_all_users(users)
                   after  == get_all_users(users')
                   table  == get_sorted_users(users', DefaultMaxNumber, FALSE).users
               IN  /\ Len(after) = Len(before) + 1
                   /\ Len(table) = Len(before) + 1
                   /\ \A i \in 1..Len(before) :
                         /\ \E j \in 1..Len(after) : after[j] = before[i]
                         /\ \E j \in 1..Len(table) : table[j] = before[i]
                   /\ Occurrences(after, r, FALSE) = 1
                   /\ Occurrences(table, r, FALSE) = 1

\* C5: a submission that is accepted adds exactly one entry, which carries
\* the submitted names, email and parsed number and is no winner; the listing
\* and the display table then hold every earlier entry and the new one.
C5_InsertAddsOne == [][C5_Step]_vars

C5_Witness ==
    /\ SubmitAccepted
    /\ last.text = <<"+", "5", "0">>
    /\ Cardinality(users) = WinnerLimit + 1
    /\ Cardinality(Winners) = WinnerLimit

\* C6: the table window lists all entries by (abs(number - t), id), which
\* puts the min(5, n) entries closest to t first.
C6_DisplayIsRankOrder ==
    (last.op = "table" /\ last.message # "panic") =>
        /\ Len(last.out) = Cardinality(users)
        /\ \A p \in 1..Len(last.out) :
              Cardinality({q \in users :
                  RanksBefore(q, last.out[p], TableTarget(last.text))}) = p - 1

C7_Inv ==
    last.op = "export" =>
        IF users = {}
        THEN last.message = "No data to export!" /\ last.out = <<>>
        ELSE /\ last.message = "Exported users"
             /\ last.count = Cardinality(users)
             /\ Len(last.out) = Cardinality(users) + 1
             /\ last.out[1][6] = "Winner"
             /\ \A r \in users :
                   LET row == last.out[PlaceById(users, r.id) + 1]
                   IN  /\ row[1] = I32ToString(r.id)
                       /\ row[2] = r.first_name
                       /\ row[5] = I32ToString(r.number)
                       /\ row[6] = (IF r.winner = 1 THEN "YES" ELSE "NO")

C7_Step == (last.op = "export")' => users' = users

C9_Inv ==
    /\ \A r, q \in users : r.id = q.id => r = q
    /\ LET l == get_all_users(users)
       IN  /\ Len(l) = Cardinality(users)
           /\ \A i \in 1..Len(l) : \E r \in users : UserOfRow(r) = l[i]
           /\ \A i, j \in 1..Len(l) : i < j => l[i].id < l[j].id

C9_Step ==
    /\ \A q \in users : \E r \in users' : r.id = q.id
    /\ \A r \in users' :
          (\A q \in users : q.id # r.id) => (\A q \in users : q.id < r.id)

\* C9: no two entries share an id, an insert assigns an id above every id
\* assigned before, and the listing is in strictly ascending id order.
C9_Ids == []C9_Inv /\ [][C9_Step]_vars

C9_Witness ==
    /\ SubmitAccepted
    /\ {r.id : r \in users} = 1..(WinnerLimit + 1)
    /\ \E r \in users : r.id = 1 /\ r.number = 50
    /\ \E r \in users : r.id = WinnerLimit + 1 /\ r.number = 10

\* C8: every handler holds the one lock from its first statement to its
\* last, so no listing, display or export reads the rows while a ranking run
\* stands between its reset and its last mark, and no actor asks for the lock
\* while holding it.
C8_Serialized ==
    /\ \A a \in Actors : pc[a] \in Inside => lock = a
    /\ \A a \in Actors : ~frame[a].torn
    /\ \A a \in Actors : pc[a] = "read" => ~RecomputeInProgress(a)
    /\ \A a \in Actors : pc[a] = "lock" => lock # a

C8_Witness ==
    /\ pc["ui"] = "mark"
    /\ frame["ui"].i = 2
    /\ Cardinality(Winners) = 1
    /\ pc["background"] = "lock"
    /\ frame["background"].op \in {"export", "table"}

\* The last handler ranked the entries by their distance to a target.
Ranked ==
    \/ last.op = "calc" /\ ParseI32(last.text).ok
    \/ last.op = "table"

RankTarget == IF last.op = "calc" THEN CalcTarget ELSE TableTarget(last.text)

\* abs(number - t) over the integers is a value of i32, for number >= 1.
DistanceFits(number, t) == t < 0 => number <= I32Max + t

\* C11: for every stored number and every target the operator can enter, the
\* distance the ranking and the display work with is abs(number - target)
\* over the integers and is not negative: neither the subtraction nor abs
\* overflows, wraps or aborts.
C11_DistanceExact ==
    Ranked =>
        /\ last.message # "panic"
        /\ \A r \in users : \A checks \in BOOLEAN :
              LET d == Distance(r.number, RankTarget, checks)
              IN  /\ ~d.panic
                  /\ d.val >= 0
                  /\ DistanceFits(r.number, RankTarget)
                  /\ d.val = (IF r.number >= RankTarget
                              THEN r.number - RankTarget
                              ELSE RankTarget - r.number)

\* Row q is still there after the step, with the fields an entrant gave it.
Kept(q) ==
    \E r \in users' :
        /\ r.id = q.id
        /\ r.first_name = q.first_name
        /\ r.surname = q.surname
        /\ r.email = q.email
        /\ r.number = q.number

C12_Step ==
    /\ \A q \in users : Kept(q)
    /\ (last.op = "calc")' =>
          /\ {r.id : r \in users'} = {q.id : q \in users}
          /\ Cardinality(users') = Cardinality(users)
    /\ (last.op = "submit")' => users \subseteq users'
    /\ (last.op \in {"export", "table"})' => users' = users

\* C12: no step removes an entry; a ranking run keeps the set of entries and
\* each entry's id, names, email and number and changes winner flags only; an
\* insert leaves every existing entry as it was, its winner flag included;
\* listing, display and export change nothing.
C12_AppendOnly == [][C12_Step]_vars

C12_Witness ==
    /\ CalcDone
    /\ last.text = <<"5", "0">>
    /\ {r.id : r \in Winners} = 2..(WinnerLimit + 1)
    /\ \E r \in NonWinners : r.id = 1 /\ r.number = 10 /\ r.first_name = "Jo"

====
